---- MODULE Spec2Model ----
(***************************************************************************)
(* Model of scripts/idw.py: k-nearest-neighbour inverse-distance weighting *)
(* (inverse_distance_weighted_interpolation), the per-file loop            *)
(* (interpolate_values, process_and_save, save_results_to_excel) and the   *)
(* thread-pool batch (main).                                               *)
(*                                                                         *)
(* Numbers.  Coordinates are integers in units of 2.5e-7, so the           *)
(* near-coincidence bound 1e-6 is 4 units.  Field values are integers in   *)
(* units of 1e-4, so the small-value bound 0.001 is 10 units.  Weights,    *)
(* sums and quotients are exact rationals [num, den], den > 0, kept in     *)
(* lowest terms.  All sample and query positions are taken from a set of   *)
(* points of 3-space whose mutual Euclidean distances are whole numbers,   *)
(* so the square root in the distance is exact.                            *)
(***************************************************************************)
EXTENDS Integers, Sequences, FiniteSets, TLC

\* ------------------------------------------------------------------- state
VARIABLES
    \* engine specification: one call of the interpolation function
    position,   \* query position
    nodes,      \* sample positions, in sample order
    values,     \* sample values, aligned with nodes
    k,          \* neighbour count asked for
    tie,        \* tie rule of the index
    pc,         \* "call" before the call, "done" after it
    out,        \* outcome of the call
    \* batch specification: main and its per-file tasks
    files,      \* the sorted source files: each the samples its parse yields
    positions,  \* the query points read_positions returns, in file order
    mainpc,     \* where main is: "submit", "returned"
    submitted,  \* number of files main has submitted to the pool
    task,       \* per file: [pc, j, results, exc]
    dirExists,  \* whether save_path exists
    artifacts,  \* the result files written: [file, rows]
    stdout      \* the messages printed: [msg, file]

\* ---------------------------------------------------------------- constants
\* 1e-6 (idw.py line 78) in coordinate units.
Eps == 4
\* 0.001 (idw.py lines 79 and 84) in value units.
Threshold == 10
\* ThreadPoolExecutor(max_workers=4)
max_workers == 4
\* interpolate_values(file_path, positions, k=4)
DefaultK == 4

\* ------------------------------------------------------------------- bounds
\* most samples in a sample set of the engine specification
MaxN == 2
\* largest k asked of the engine
MaxK == 3
\* most source files of a batch
MaxFiles == 2
\* most query points of a batch
MaxQ == 2

\* Sample positions: mutual distances 0, 3, 4, 5 (and ties: C and E are both
\* at 4 from A and at 5 from B).
PosA == <<0, 0, 0>>
PosB == <<3, 0, 0>>
PosC == <<0, 4, 0>>
PosD == <<3, 4, 0>>
PosE == <<0, 0, 4>>
NodePositions == {PosA, PosB, PosC, PosD, PosE}
\* Query positions: A and B are sample positions too (exact match), and B is
\* within 1e-6 of A.
QueryPositions == {PosA, PosB}
\* Field values: negative, below 0.001, exactly 0.001, above.
FieldValues == {-20, 5, 10, 40}

\* distance of a neighbour the index could not supply (numpy inf)
Inf == 1000000

\* --------------------------------------------------------- exact rationals
Abs(x) == IF x < 0 THEN -x ELSE x

RECURSIVE GCD(_, _)
GCD(a, b) == IF b = 0 THEN a ELSE GCD(b, a % b)

Rat(n, d) ==
    LET g == GCD(Abs(n), d)
    IN  IF g = 0 THEN [num |-> 0, den |-> 1]
        ELSE [num |-> n \div g, den |-> d \div g]

RatInt(n) == [num |-> n, den |-> 1]
RatAdd(a, b) == Rat(a.num * b.den + b.num * a.den, a.den * b.den)
\* a / b for b > 0
RatDiv(a, b) == Rat(a.num * b.den, a.den * b.num)
\* a >= t for an integer t
RatGE(a, t) == a.num >= t * a.den
RatAbs(a) == [num |-> Abs(a.num), den |-> a.den]

\* ------------------------------------------------------------ cKDTree.query
SqDist(p, q) ==
    (p[1] - q[1]) * (p[1] - q[1]) + (p[2] - q[2]) * (p[2] - q[2])
        + (p[3] - q[3]) * (p[3] - q[3])

\* Euclidean distance; exact on the positions above.
Dist(p, q) == LET s == SqDist(p, q) IN CHOOSE d \in 0..s : d * d = s

\* The order in which the index hands back sample i before sample j: by
\* distance, and among equal distances by the index's tie rule.  SciPy does
\* not document the rule; the model carries it as a parameter with two
\* deterministic outcomes.
TieRules == {"lowIndexFirst", "highIndexFirst"}

Closer(pts, point, rule, i, j) ==
    LET di == Dist(pts[i], point)
        dj == Dist(pts[j], point)
    IN  \/ di < dj
        \/ di = dj /\ IF rule = "lowIndexFirst" THEN i < j ELSE i > j

RECURSIVE NearestFirst(_, _, _, _)
NearestFirst(pts, point, rule, S) ==
    IF S = {} THEN <<>>
    ELSE LET i == CHOOSE x \in S : \A y \in S \ {x} : Closer(pts, point, rule, x, y)
         IN  <<[dist |-> Dist(pts[i], point), idx |-> i]>>
                 \o NearestFirst(pts, point, rule, S \ {i})

\* Variant of KDQuery: the first k samples in storage order, not the nearest.
KDQueryStorageOrder(pts, point, kq, rule) ==
    LET n == Len(pts)
        got == [j \in 1..kq |->
                   IF j <= n THEN [dist |-> Dist(pts[j], point), idx |-> j]
                   ELSE [dist |-> Inf, idx |-> n + 1]]
    IN  [scalar |-> (kq = 1), pairs |-> got]

\* kdtree.query(point, k): the k nearest samples by non-decreasing distance;
\* when k exceeds the number of samples the missing neighbours have infinite
\* distance and the index one past the last sample.  For k = 1 SciPy returns
\* a scalar distance and index instead of arrays.
KDQuery(pts, point, kq, rule) ==
    LET n == Len(pts)
        all == NearestFirst(pts, point, rule, 1..n)
        got == [j \in 1..kq |->
                   IF j <= n THEN all[j] ELSE [dist |-> Inf, idx |-> n + 1]]
    IN  [scalar |-> (kq = 1), pairs |-> got]

\* ----------------------------------- inverse_distance_weighted_interpolation
\* Variant of ClampK: k is passed to the index as asked.
ClampKNone(kq, n) == kq

\* if len(nodes) < k: k = len(nodes)
ClampK(kq, n) == IF n < kq THEN n ELSE kq

\* if isinstance(distances, float): distances = [distances]; indices = [indices]
\* A scalar answer is wrapped into one-element lists; arrays pass through.
AsLists(q) == IF q.scalar THEN [scalar |-> FALSE, pairs |-> q.pairs] ELSE q

\* Variant of ReturnCoincident: the coincident value is returned as it is.
ReturnCoincidentRaw(v) == v

\* return values[idx] if values[idx] >= 0.001 else 0
ReturnCoincident(v) == IF RatGE(v, Threshold) THEN v ELSE RatInt(0)

\* Variant of ReturnInterpolated: strict comparison with 0.001.
ReturnInterpolatedStrict(v) ==
    IF v.num > Threshold * v.den THEN v ELSE [num |-> 0, den |-> 1]

\* return interpolated_value if interpolated_value >= 0.001 else 0
ReturnInterpolated(v) == IF RatGE(v, Threshold) THEN v ELSE RatInt(0)

\* Variant of Weight: inverse squared distance.
WeightSquared(dist) == [num |-> 1, den |-> dist * dist]

\* weight = 1.0 / dist
Weight(dist) == Rat(1, dist)

Raised(e) ==
    [kind |-> "raise", exc |-> e, path |-> "none",
     cand |-> RatInt(0), ret |-> RatInt(0)]

Returned(p, c, r) ==
    [kind |-> "value", exc |-> "none", path |-> p, cand |-> c, ret |-> r]

\* The for loop over zip(distances, indices) and the two return statements.
RECURSIVE Accumulate(_, _, _, _)
Accumulate(pairs, vals, numerator, denominator) ==
    IF pairs = <<>>
    THEN LET interpolated_value ==
                 IF denominator.num # 0 THEN RatDiv(numerator, denominator)
                 ELSE RatInt(0)
         IN  Returned("average", interpolated_value,
                      ReturnInterpolated(interpolated_value))
    ELSE LET dist == Head(pairs).dist
             idx == Head(pairs).idx
         IN  IF dist < Eps
             THEN Returned("coincident", RatInt(vals[idx]),
                           ReturnCoincident(RatInt(vals[idx])))
             ELSE LET weight == IF dist = Inf THEN RatInt(0) ELSE Weight(dist)
                  IN  IF idx \notin DOMAIN vals
                      THEN Raised("IndexError")
                      ELSE Accumulate(Tail(pairs), vals,
                                      RatAdd(numerator,
                                             Rat(weight.num * vals[idx], weight.den)),
                                      RatAdd(denominator, weight))

\* inverse_distance_weighted_interpolation(position, nodes, values, k), with
\* the index's tie rule as a parameter.  cKDTree of an empty point list
\* raises ValueError, as does a query for fewer than one neighbour.
IDW(point, pts, vals, kAsked, rule) ==
    LET kk == ClampK(kAsked, Len(pts))
    IN  IF Len(pts) = 0 \/ kk < 1
        THEN Raised("ValueError")
        ELSE LET q == AsLists(KDQuery(pts, point, kk, rule))
             IN  IF q.scalar THEN Raised("TypeError")
                 ELSE Accumulate(q.pairs, vals, RatInt(0), RatInt(0))

\* ------------------------------------------------------- state tuples
engineVars == <<position, nodes, values, k, pc, out>>
batchVars == <<files, positions, mainpc, submitted, task, dirExists, artifacts, stdout>>
vars == <<position, nodes, values, k, tie, pc, out,
          files, positions, mainpc, submitted, task, dirExists, artifacts, stdout>>

\* all sequences over S of length 0..n
RECURSIVE SeqsUpTo(_, _)
SeqsUpTo(S, n) ==
    IF n = 0 THEN {<<>>}
    ELSE LET shorter == SeqsUpTo(S, n - 1)
         IN  shorter \cup {Append(s, x) : s \in {t \in shorter : Len(t) = n - 1}, x \in S}

Samples == [pos : NodePositions, value : FieldValues]

NoOutcome == Raised("notcalled")

\* nodes = [(node.origX, node.origY, node.origZ) for node in fluent_data]
NodesOf(ss) == [i \in DOMAIN ss |-> ss[i].pos]
\* values = [node.value for node in fluent_data]
ValuesOf(ss) == [i \in DOMAIN ss |-> ss[i].value]

NoBatch ==
    /\ files = <<>>
    /\ positions = <<>>
    /\ mainpc = "idle"
    /\ submitted = 0
    /\ task = <<>>
    /\ dirExists = FALSE
    /\ artifacts = {}
    /\ stdout = {}

\* ------------------------------------------------- engine specification
Init ==
    /\ \E ss \in SeqsUpTo(Samples, MaxN) :
          /\ nodes = NodesOf(ss)
          /\ values = ValuesOf(ss)
    /\ position \in QueryPositions
    /\ k \in 1..MaxK
    /\ tie \in TieRules
    /\ pc = "call"
    /\ out = NoOutcome
    /\ NoBatch

Interpolate ==
    /\ pc = "call"
    /\ out' = IDW(position, nodes, values, k, tie)
    /\ pc' = "done"
    /\ UNCHANGED <<position, nodes, values, k, tie>>
    /\ UNCHANGED batchVars

Next == Interpolate

Spec == Init /\ [][Next]_vars

\* -------------------------------------------------- batch specification
\* What the parse of a source file can yield: no sample, one sample, two
\* samples (one of them at a query position).
FileContents ==
    { <<>>,
      <<[pos |-> PosC, value |-> 40]>>,
      <<[pos |-> PosA, value |-> -20], [pos |-> PosD, value |-> 40]>> }

\* Vector3(x, y, z, nodeID) of the query-point file
QueryPoints == {[nodeID |-> 7, pos |-> PosA], [nodeID |-> 3, pos |-> PosB]}

FileIds == DOMAIN files

Terminal == {"done", "failed"}
Running == {"interpolate", "makedirs", "write"}

NewTask == [pc |-> "unsubmitted", j |-> 0, results |-> <<>>, exc |-> "none"]

BatchInit ==
    /\ files \in SeqsUpTo(FileContents, MaxFiles)
    /\ positions \in SeqsUpTo(QueryPoints, MaxQ)
    /\ dirExists \in BOOLEAN
    /\ mainpc = "submit"
    /\ submitted = 0
    /\ task = [f \in DOMAIN files |-> NewTask]
    /\ artifacts = {}
    /\ stdout = {}
    /\ tie = "lowIndexFirst"
    /\ position = PosA /\ nodes = <<>> /\ values = <<>>
    /\ k = DefaultK /\ pc = "batch" /\ out = NoOutcome

\* Variant of OnFailure: the failure also cancels the tasks still queued.
OnFailureCancelPending(t, f, e) ==
    [g \in DOMAIN t |->
        IF g = f THEN [t[g] EXCEPT !.pc = "failed", !.exc = e]
        ELSE IF t[g].pc = "pending"
             THEN [t[g] EXCEPT !.pc = "failed", !.exc = "CancelledError"]
             ELSE t[g]]

\* An exception that leaves process_and_save ends that task alone: the pool's
\* worker stores it in the task's future; nothing is printed and no other
\* task is touched.
OnFailure(t, f, e) == [t EXCEPT ![f].pc = "failed", ![f].exc = e]

\* Variant of JoinReady: main goes on as soon as one task has ended.
JoinReadyAny(t) == \E f \in DOMAIN t : t[f].pc \in Terminal

\* concurrent.futures.wait(futures) and the exit of the with block
\* (shutdown(wait=True)) both block until every future has ended.
JoinReady(t) == \A f \in DOMAIN t : t[f].pc \in Terminal

\* Variant of AppendRow: the row is put in front.
PrependRow(results, row) == <<row>> \o results

\* results.append((pos.nodeID, pos.x, pos.y, pos.z, interpolated_value))
AppendRow(results, row) == Append(results, row)

Row(q, v) == [nodeID |-> q.nodeID, pos |-> q.pos, value |-> v]

\* The outcomes of inverse_distance_weighted_interpolation(pos, nodes, values, k)
\* as interpolate_values calls it (k = 4), for every file content and query
\* point of a batch; tabulated so that each outcome is computed once.
IDWTable ==
    {<<c, q, IDW(q.pos, NodesOf(c), ValuesOf(c), DefaultK, "lowIndexFirst")>> :
        c \in FileContents, q \in QueryPoints}

\* interpolated_value = inverse_distance_weighted_interpolation(pos, nodes, values, k)
CallIDW(c, q) == (CHOOSE t \in IDWTable : t[1] = c /\ t[2] = q)[3]

\* executor.submit(process_and_save, file, positions, save_path), file by file
Submit ==
    /\ mainpc = "submit"
    /\ submitted < Len(files)
    /\ task' = [task EXCEPT ![submitted + 1].pc = "pending"]
    /\ submitted' = submitted + 1
    /\ UNCHANGED <<files, positions, mainpc, dirExists, artifacts, stdout>>
    /\ UNCHANGED <<engineVars, tie>>

\* main leaves the with block and returns
Join ==
    /\ mainpc = "submit"
    /\ submitted = Len(files)
    /\ JoinReady(task)
    /\ mainpc' = "returned"
    /\ UNCHANGED <<files, positions, submitted, task, dirExists, artifacts, stdout>>
    /\ UNCHANGED <<engineVars, tie>>

\* A pool worker takes the task; interpolate_values prints the file name and
\* parses the file.
StartTask(f) ==
    /\ task[f].pc = "pending"
    /\ Cardinality({g \in FileIds : task[g].pc \in Running}) < max_workers
    /\ task' = [task EXCEPT ![f].pc = "interpolate"]
    /\ stdout' = stdout \cup {[msg |-> "processing", file |-> f]}
    /\ UNCHANGED <<files, positions, mainpc, submitted, dirExists, artifacts>>
    /\ UNCHANGED <<engineVars, tie>>

\* one turn of the loop "for pos in positions"
InterpolateRow(f) ==
    /\ task[f].pc = "interpolate"
    /\ task[f].j < Len(positions)
    /\ LET q == positions[task[f].j + 1]
           r == CallIDW(files[f], q)
       IN  task' = IF r.kind = "raise"
                   THEN OnFailure(task, f, r.exc)
                   ELSE [task EXCEPT ![f].j = @ + 1,
                                     ![f].results = AppendRow(@, Row(q, r.ret))]
    /\ UNCHANGED <<files, positions, mainpc, submitted, dirExists, artifacts, stdout>>
    /\ UNCHANGED <<engineVars, tie>>

\* interpolate_values returns its results; save_results_to_excel tests
\* os.path.exists(save_path)
CheckSaveDir(f) ==
    /\ task[f].pc = "interpolate"
    /\ task[f].j = Len(positions)
    /\ task' = [task EXCEPT ![f].pc = IF dirExists THEN "write" ELSE "makedirs"]
    /\ UNCHANGED <<files, positions, mainpc, submitted, dirExists, artifacts, stdout>>
    /\ UNCHANGED <<engineVars, tie>>

\* os.makedirs(save_path): raises FileExistsError when another task has
\* created the directory since the test
MakeDirs(f) ==
    /\ task[f].pc = "makedirs"
    /\ IF dirExists
       THEN /\ task' = OnFailure(task, f, "FileExistsError")
            /\ UNCHANGED dirExists
       ELSE /\ task' = [task EXCEPT ![f].pc = "write"]
            /\ dirExists' = TRUE
    /\ UNCHANGED <<files, positions, mainpc, submitted, artifacts, stdout>>
    /\ UNCHANGED <<engineVars, tie>>

\* df.to_excel(file_path) and the print that follows
WriteExcel(f) ==
    /\ task[f].pc = "write"
    /\ artifacts' = artifacts \cup {[file |-> f, rows |-> task[f].results]}
    /\ stdout' = stdout \cup {[msg |-> "saved", file |-> f]}
    /\ task' = [task EXCEPT ![f].pc = "done"]
    /\ UNCHANGED <<files, positions, mainpc, submitted, dirExists>>
    /\ UNCHANGED <<engineVars, tie>>

TaskStep(f) ==
    \/ StartTask(f)
    \/ InterpolateRow(f)
    \/ CheckSaveDir(f)
    \/ MakeDirs(f)
    \/ WriteExcel(f)

MainStep == Submit \/ Join

BatchNext ==
    \/ Submit
    \/ Join
    \/ \E f \in FileIds : StartTask(f)
    \/ \E f \in FileIds : InterpolateRow(f)
    \/ \E f \in FileIds : CheckSaveDir(f)
    \/ \E f \in FileIds : MakeDirs(f)
    \/ \E f \in FileIds : WriteExcel(f)

BatchSpec == BatchInit /\ [][BatchNext]_vars

\* The threads of the pool and the main thread are scheduled by the
\* operating system: a step that stays possible is taken.
FairBatchSpec ==
    /\ BatchSpec
    /\ WF_vars(MainStep)
    /\ \A f \in 1..MaxFiles : WF_vars(f \in FileIds /\ TaskStep(f))

\* ======================================================= engine properties
Called == pc = "done"
N == Len(nodes)

\* the rational of a field value
AsRat(v) == RatInt(v)

\* sample i is the only sample at position p
OnlySampleAt(i, p) ==
    /\ nodes[i] = p
    /\ \A j \in DOMAIN nodes : j # i => nodes[j] # p

\* the samples' distances from the query point are pairwise distinct
DistinctDistances ==
    \A i, j \in DOMAIN nodes :
        i # j => Dist(nodes[i], position) # Dist(nodes[j], position)

KEff == IF k < N THEN k ELSE N

\* the k_eff nearest samples, nearest first
Retrieved == SubSeq(NearestFirst(nodes, position, tie, 1..N), 1, KEff)

RECURSIVE ProdDistExcept(_, _, _)
\* product of the distances of the neighbours in J, leaving out neighbour i
ProdDistExcept(nb, J, i) ==
    IF J = {} THEN 1
    ELSE LET j == CHOOSE x \in J : TRUE
         IN  (IF j = i THEN 1 ELSE nb[j].dist) * ProdDistExcept(nb, J \ {j}, i)

RECURSIVE SumOver(_, _, _)
\* sum over i in J of (v_i if withValues else 1) * prod_{j # i} d_j
SumOver(nb, J, withValues) ==
    IF J = {} THEN 0
    ELSE LET i == CHOOSE x \in J : TRUE
         IN  (IF withValues THEN values[nb[i].idx] ELSE 1)
                 * ProdDistExcept(nb, DOMAIN nb, i)
             + SumOver(nb, J \ {i}, withValues)

\* (sum of v_i / d_i) / (sum of 1 / d_i), both sums multiplied by prod d_j
WeightedMean(nb) ==
    Rat(SumOver(nb, DOMAIN nb, TRUE), SumOver(nb, DOMAIN nb, FALSE))

\* C3: when none of the k_eff retrieved neighbours is within 1e-6 of the
\* query point, the candidate is (sum of values[i]/d_i) / (sum of 1/d_i)
\* over those neighbours; for k_eff = 1 it is the single neighbour's value.
C3_WeightedAverage ==
    (Called /\ N >= 1) =>
        LET nb == Retrieved
        IN  (\A j \in DOMAIN nb : nb[j].dist >= Eps) =>
                /\ out.kind = "value"
                /\ out.path = "average"
                /\ out.cand = WeightedMean(nb)
                /\ KEff = 1 => out.cand = AsRat(values[nb[1].idx])

\* a call with k = 1 on two samples, neither within 1e-6: the candidate is
\* the nearer sample's value
C3_Witness ==
    /\ Called
    /\ N = 2 /\ k = 1
    /\ Dist(nodes[1], position) > Dist(nodes[2], position)
    /\ Dist(nodes[2], position) >= Eps
    /\ values[1] # values[2]
    /\ out.path = "average"
    /\ out.cand = AsRat(values[2])

Perms(n) == {f \in [1..n -> 1..n] : \A a, b \in 1..n : f[a] = f[b] => a = b}

Permuted(s, f) == [i \in DOMAIN s |-> s[f[i]]]

SameOutcome(a, b) == a.kind = b.kind /\ a.exc = b.exc /\ a.ret = b.ret

\* C4 as stated: every permutation of the samples (positions and values
\* moved together) gives the same result, ties included.
C4_OrderInvariant ==
    Called =>
        \A f \in Perms(N) :
            SameOutcome(IDW(position, Permuted(nodes, f), Permuted(values, f), k, tie),
                        out)

\* C4 amended: when the samples' distances from the query point are pairwise
\* distinct, every permutation of the samples gives the same result.
C4_OrderInvariantNoTies ==
    (Called /\ DistinctDistances) =>
        \A f \in Perms(N) :
            SameOutcome(IDW(position, Permuted(nodes, f), Permuted(values, f), k, tie),
                        out)

\* two samples at different distances with different values, k = 1
C4_Witness ==
    /\ Called
    /\ N = 2 /\ k = 1
    /\ DistinctDistances
    /\ values[1] # values[2]
    /\ Dist(nodes[1], position) > Dist(nodes[2], position)
    /\ out.kind = "value"
    /\ out.ret # AsRat(0)

\* C5: for K > n the call with k = K gives the outcome of the call with
\* k = n, and with at least one sample it returns a value (no error).
C5_KClamping ==
    (Called /\ k > N) =>
        /\ SameOutcome(out, IDW(position, nodes, values, N, tie))
        /\ N >= 1 => out.kind = "value"

\* a call with k two above the sample count that returned a non-zero value
C5_Witness ==
    /\ Called
    /\ N = 1 /\ k = 3
    /\ out.kind = "value"
    /\ out.ret # AsRat(0)

\* ======================================================== batch properties
Returned_ == mainpc = "returned"

HasArtifact(f) == \E a \in artifacts : a.file = f

\* interpolate_values has returned for file f
ResultsReturned(f) == task[f].pc \in {"makedirs", "write", "done"}

\* C6: when interpolate_values has returned for a file, its results have one
\* row per query point, and row j carries the id and the coordinates of the
\* j-th query point.
C6_ResultOrder ==
    \A f \in FileIds :
        ResultsReturned(f) =>
            /\ Len(task[f].results) = Len(positions)
            /\ \A j \in DOMAIN positions :
                  /\ task[f].results[j].nodeID = positions[j].nodeID
                  /\ task[f].results[j].pos = positions[j].pos

\* a file done for two query points with different ids
C6_Witness ==
    \E f \in FileIds :
        /\ task[f].pc = "done"
        /\ Len(positions) = 2
        /\ positions[1].nodeID # positions[2].nodeID
        /\ Len(task[f].results) = 2

\* the interpolation of file f raises for no query point of the batch
InterpolationSucceeds(f) == Len(files[f]) >= 1 \/ positions = <<>>

\* C7: when main has returned, every task has run to its end; a task that
\* ended without raising has written its artifact, whatever its siblings
\* did; a file whose interpolation raises for no query point has failed only
\* if its own save raised; a failed task has written no artifact.
C7_FailureIsolation ==
    Returned_ =>
        \A f \in FileIds :
            /\ task[f].pc \in Terminal
            /\ task[f].pc = "done" =>
                  [file |-> f, rows |-> task[f].results] \in artifacts
            /\ task[f].pc = "failed" => ~HasArtifact(f)
            /\ InterpolationSucceeds(f) =>
                  task[f].pc = "done" \/ task[f].exc = "FileExistsError"

\* main has returned; the first file's task failed in the interpolation and
\* the second file's artifact is written
C7_Witness ==
    /\ Returned_
    /\ Len(files) = 2
    /\ task[1].pc = "failed" /\ task[1].exc = "ValueError"
    /\ task[2].pc = "done" /\ HasArtifact(2)

Batch_EventuallyReturns == <>Returned_
Batch_ReturnsAfterTasks == [](Returned_ => \A f \in FileIds : task[f].pc \in Terminal)

\* C8: main returns only after every submitted task has ended (completed or
\* failed), and the batch eventually finishes.
C8_BatchJoin == Batch_ReturnsAfterTasks /\ Batch_EventuallyReturns

\* main has returned from a batch of two files, one completed, one failed
C8_Witness ==
    /\ Returned_
    /\ Len(files) = 2
    /\ \E f, g \in FileIds : task[f].pc = "done" /\ task[g].pc = "failed"

\* C9: when main has returned, every failed task's failure has been reported.
C9_FailuresReported ==
    Returned_ =>
        \A f \in FileIds :
            task[f].pc = "failed" => [msg |-> "failure", file |-> f] \in stdout

\* C10: a file with no sample ends as a failure with no artifact written, for
\* every query-point sequence; the interpolation raises for every query point.
C10_NoSamplesFails ==
    Returned_ =>
        \A f \in FileIds :
            Len(files[f]) = 0 =>
                /\ \A j \in DOMAIN positions :
                      CallIDW(files[f], positions[j]).kind = "raise"
                /\ task[f].pc = "failed"
                /\ ~HasArtifact(f)

====
